---- MODULE Spec2Model ----
(***************************************************************************)
(* One invocation of the CDK application of everything-at-hand             *)
(* (src/cdk/bin/cdk.ts): the configuration module is loaded, the           *)
(* environment selector is read from the context, the configuration is     *)
(* resolved, and the stacks and constructs are built.  Every action is one *)
(* statement (or constructor step) of the entry point, in program order.   *)
(***************************************************************************)
EXTENDS Integers, Sequences, FiniteSets, TLC

VARIABLES
    processEnv,        \* process.env: variable name -> undefined | string
    context,           \* the CDK context: key -> undefined | string
    variant,           \* which source of the NotesStateful construct is built
    pc,                \* the statement of cdk.ts that runs next
    err,               \* the error that ended the invocation, or NoError
    environments,      \* the exported record of environments.ts, once loaded
    appCreated,        \* new cdk.App() has run
    environmentName,   \* what tryGetContext('environment') returned
    environmentConfig, \* what getEnvironmentConfig returned
    deploymentRoleName,
    stacks,            \* the stacks constructed so far
    policies,          \* the managed policies attached to the deployment role
    resources,         \* the named resources constructed so far
    database,          \* the description of the database instance
    bucket,            \* the description of the images bucket
    outputs,           \* the CfnOutputs declared so far
    dependencies,      \* the edges declared with addDependency
    synthed,           \* app.synth() has run
    network,           \* the VPC and security-group rules built so far
    baseVersion        \* which version of the BaseCdkPermissions construct is built

vars == <<processEnv, context, variant, pc, err, environments, appCreated,
          environmentName, environmentConfig, deploymentRoleName, stacks,
          policies, resources, database, bucket, outputs, dependencies, synthed,
          network, baseVersion>>

(***************************************************************************)
(* Values of the language                                                  *)
(***************************************************************************)
Undefined == [type |-> "undefined"]

Str(s) == [type |-> "string", val |-> s]

\* A value inherited from Object.prototype ('constructor', 'toString', ...):
\* truthy, and none of the configuration's fields is defined on it.
InheritedFunction == [type |-> "function"]

\* The operand of `!x`: undefined and the empty string are falsy, every
\* object, function and non-empty string is truthy.
Falsy(v) == \/ v.type = "undefined"
            \/ (v.type = "string" /\ v.val = "")

\* s contains n as a substring (String.prototype.includes).
Contains(s, n) ==
    \/ n = ""
    \/ \E i \in 1..Len(s) : \E j \in i..Len(s) : SubSeq(s, i, j) = n

LowerCaseLetters == "abcdefghijklmnopqrstuvwxyz"

UpperCaseLetters == "ABCDEFGHIJKLMNOPQRSTUVWXYZ"

\* String.prototype.toUpperCase on one character.
ToUpperCase(c) ==
    IF \E i \in 1..Len(LowerCaseLetters) : SubSeq(LowerCaseLetters, i, i) = c
    THEN LET i == CHOOSE k \in 1..Len(LowerCaseLetters) :
                      SubSeq(LowerCaseLetters, k, k) = c
         IN  SubSeq(UpperCaseLetters, i, i)
    ELSE c

(***************************************************************************)
(* Inputs of an invocation                                                 *)
(***************************************************************************)
\* How many distinct account ids the process environment may hold.
NumAccountIds == 2

RECURSIVE Repeat(_, _)
Repeat(s, n) == IF n = 0 THEN "" ELSE s \o Repeat(s, n - 1)

\* The i-th account id: twelve digits.
AccountId(i) == Repeat(SubSeq("123456789", i, i), 12)

AccountIds == {AccountId(i) : i \in 1..NumAccountIds}

EnvVarNames == {"PREPROD_AWS_ACCOUNT_ID", "PROD_AWS_ACCOUNT_ID"}

EnvVarValues == {Undefined, Str("")} \cup {Str(a) : a \in AccountIds}

ContextKeys == {"environment", "environmentConfig"}

\* Selectors given with --context environment=...: absent, empty, the two
\* supported names, an unsupported name, and two names that are properties
\* of Object.prototype.
Selectors == {Undefined, Str(""), Str("preprod"), Str("prod"), Str("staging"),
              Str("constructor"), Str("toString")}

\* What --context environmentConfig=... may hold: nothing in the documented
\* commands sets it; a command line can only set it to a string.
ContextConfigValues == {Undefined, Str("eah-custom")}

\* The three sources of the NotesStateful construct.
Variants == {"defaultVpc", "customVpc", "simpleVpc"}

\* The two versions of the BaseCdkPermissions construct in the repository.
BaseCdkVersions == {"fivePolicies", "sixPolicies"}

(***************************************************************************)
(* environments.ts                                                         *)
(***************************************************************************)
Ok(v) == [ok |-> TRUE, value |-> v]

Threw(kind, at, varName, envName) ==
    [ok |-> FALSE,
     error |-> [kind |-> kind, at |-> at, varName |-> varName, envName |-> envName]]

NoError == [kind |-> "none", at |-> "", varName |-> "", envName |-> ""]

\* Mutant of GetRequiredEnvVar: a missing variable falls back to a default.
GetRequiredEnvVar_default(env, varName, forEnvironment) ==
    IF Falsy(env[varName]) THEN Ok("000000000000") ELSE Ok(env[varName].val)

GetRequiredEnvVar(env, varName, forEnvironment) ==
    IF Falsy(env[varName])
    THEN Threw("MissingEnvVar", "environments.ts:18", varName, forEnvironment)
    ELSE Ok(env[varName].val)

\* The arguments of the getRequiredEnvVar call of each entry of the record.
AccountIdVar(key) ==
    CASE key = "preprod" -> "PREPROD_AWS_ACCOUNT_ID"
      [] key = "prod"    -> "PREPROD_AWS_ACCOUNT_ID"

AccountIdEnvironment(key) ==
    CASE key = "preprod" -> "preprod"
      [] key = "prod"    -> "preprod"

PreprodAllocatedStorage == 20

ProdAllocatedStorage == 20

PreprodEntry(account) ==
    [type |-> "config",
     account |-> account,
     region |-> "sa-east-1",
     environment |-> "preprod",
     resourcePrefix |-> "eah-preprod",
     dbInstanceType |-> "db.t3.micro",
     multiAz |-> FALSE,
     deletionProtection |-> FALSE,
     allocatedStorage |-> PreprodAllocatedStorage]

\* Mutant of ProdEntry: the entry was copied from preprod and its environment
\* and prefix were left as they were, without the name 'prod' in the prefix.
ProdEntry_copied(account) ==
    [type |-> "config",
     account |-> account,
     region |-> "sa-east-1",
     environment |-> "preprod",
     resourcePrefix |-> "eah-pre",
     dbInstanceType |-> "db.t3.micro",
     multiAz |-> FALSE,
     deletionProtection |-> FALSE,
     allocatedStorage |-> ProdAllocatedStorage]

ProdEntry(account) ==
    [type |-> "config",
     account |-> account,
     region |-> "sa-east-1",
     environment |-> "prod",
     resourcePrefix |-> "eah-preprod",
     dbInstanceType |-> "db.t3.micro",
     multiAz |-> FALSE,
     deletionProtection |-> FALSE,
     allocatedStorage |-> ProdAllocatedStorage]

\* The own keys of the environments record, in the order of the literal.
OwnKeys == {"preprod", "prod"}

\* Names every object literal inherits from Object.prototype.
ObjectPrototypeKeys == {"constructor", "toString", "valueOf", "hasOwnProperty",
                        "isPrototypeOf", "propertyIsEnumerable",
                        "toLocaleString", "__proto__"}

NotLoaded == [type |-> "notLoaded"]

\* The module body: the record literal evaluates its entries in order, and the
\* first getRequiredEnvVar that throws ends the evaluation.
EvalEnvironments(env) ==
    LET pre == GetRequiredEnvVar(env, AccountIdVar("preprod"),
                                 AccountIdEnvironment("preprod"))
        pro == GetRequiredEnvVar(env, AccountIdVar("prod"),
                                 AccountIdEnvironment("prod"))
    IN  IF ~pre.ok THEN pre
        ELSE IF ~pro.ok THEN pro
        ELSE Ok([type |-> "record",
                 preprod |-> PreprodEntry(pre.value),
                 prod |-> ProdEntry(pro.value)])

\* environments[name]: an own key gives its entry, a name of Object.prototype
\* gives the inherited value, any other name gives undefined.  An undefined
\* name is converted to the key 'undefined'.
Lookup(envs, name) ==
    IF name.type = "string" /\ name.val = "preprod" THEN envs.preprod
    ELSE IF name.type = "string" /\ name.val = "prod" THEN envs.prod
    ELSE IF name.type = "string" /\ name.val \in ObjectPrototypeKeys
         THEN InheritedFunction
    ELSE Undefined

GetEnvironmentConfig(envs, name) ==
    LET config == Lookup(envs, name)
    IN  IF Falsy(config)
        THEN Threw("EnvNotFound", "environments.ts:53", "", "")
        ELSE Ok(config)

(***************************************************************************)
(* The initial state: the inputs are chosen, nothing has run.              *)
(***************************************************************************)
NoDatabase == [type |-> "none"]

NoBucket == [type |-> "none"]

NoNetwork == [type |-> "none"]

Init ==
    /\ processEnv \in [EnvVarNames -> EnvVarValues]
    /\ context \in {c \in [ContextKeys -> Selectors \cup ContextConfigValues] :
                       /\ c["environment"] \in Selectors
                       /\ c["environmentConfig"] \in ContextConfigValues}
    /\ variant \in Variants
    /\ pc = "load"
    /\ err = NoError
    /\ environments = NotLoaded
    /\ appCreated = FALSE
    /\ environmentName = Undefined
    /\ environmentConfig = Undefined
    /\ deploymentRoleName = ""
    /\ stacks = {}
    /\ policies = {}
    /\ resources = {}
    /\ database = NoDatabase
    /\ bucket = NoBucket
    /\ outputs = {}
    /\ dependencies = {}
    /\ synthed = FALSE
    /\ network = NoNetwork
    /\ baseVersion \in BaseCdkVersions

\* An uncaught exception ends the process.
Throw(e) ==
    /\ pc' = "error"
    /\ err' = e

\* cdk.ts:7 -- the import evaluates environments.ts before the body runs.
LoadEnvironments ==
    /\ pc = "load"
    /\ LET r == EvalEnvironments(processEnv)
       IN  IF r.ok
           THEN /\ environments' = r.value
                /\ pc' = "app"
                /\ err' = err
           ELSE /\ Throw(r.error)
                /\ environments' = environments
    /\ UNCHANGED <<processEnv, context, variant, appCreated, environmentName,
                   environmentConfig, deploymentRoleName, stacks, policies,
                   resources, database, bucket, outputs, dependencies, synthed,
                   network, baseVersion>>

\* cdk.ts:9
NewApp ==
    /\ pc = "app"
    /\ appCreated' = TRUE
    /\ pc' = "context"
    /\ UNCHANGED <<processEnv, context, variant, err, environments,
                   environmentName, environmentConfig, deploymentRoleName,
                   stacks, policies, resources, database, bucket, outputs,
                   dependencies, synthed,
                   network, baseVersion>>

\* cdk.ts:12
ReadContext ==
    /\ pc = "context"
    /\ environmentName' = context["environment"]
    /\ pc' = "check"
    /\ UNCHANGED <<processEnv, context, variant, err, environments, appCreated,
                   environmentConfig, deploymentRoleName, stacks, policies,
                   resources, database, bucket, outputs, dependencies, synthed,
                   network, baseVersion>>

\* Mutant of CheckSelector: the missing selector is reported, and the run
\* goes on with 'preprod' instead of stopping.
CheckSelector_logged ==
    /\ pc = "check"
    /\ IF Falsy(environmentName)
       THEN /\ err' = [kind |-> "ContextRequired", at |-> "cdk.ts:15",
                       varName |-> "", envName |-> ""]
            /\ environmentName' = Str("preprod")
       ELSE UNCHANGED <<err, environmentName>>
    /\ pc' = "resolve"
    /\ UNCHANGED <<processEnv, context, variant, environments, appCreated,
                   environmentConfig, deploymentRoleName, stacks, policies,
                   resources, database, bucket, outputs, dependencies, synthed,
                   network, baseVersion>>

\* Mutant of CheckSelector: only an undefined selector is refused, an empty
\* one passes.
CheckSelector_undefinedOnly ==
    /\ pc = "check"
    /\ IF environmentName = Undefined
       THEN Throw([kind |-> "ContextRequired", at |-> "cdk.ts:15",
                   varName |-> "", envName |-> ""])
       ELSE /\ pc' = "resolve"
            /\ err' = err
    /\ UNCHANGED <<processEnv, context, variant, environments, appCreated,
                   environmentName, environmentConfig, deploymentRoleName,
                   stacks, policies, resources, database, bucket, outputs,
                   dependencies, synthed,
                   network, baseVersion>>

\* cdk.ts:14-16
CheckSelector ==
    /\ pc = "check"
    /\ IF Falsy(environmentName)
       THEN Throw([kind |-> "ContextRequired", at |-> "cdk.ts:15",
                   varName |-> "", envName |-> ""])
       ELSE /\ pc' = "resolve"
            /\ err' = err
    /\ UNCHANGED <<processEnv, context, variant, environments, appCreated,
                   environmentName, environmentConfig, deploymentRoleName,
                   stacks, policies, resources, database, bucket, outputs,
                   dependencies, synthed,
                   network, baseVersion>>

\* cdk.ts:19
ResolveConfig ==
    /\ pc = "resolve"
    /\ LET r == GetEnvironmentConfig(environments, environmentName)
       IN  IF r.ok
           THEN /\ environmentConfig' = r.value
                /\ pc' = "props"
                /\ err' = err
           ELSE /\ Throw(r.error)
                /\ environmentConfig' = environmentConfig
    /\ UNCHANGED <<processEnv, context, variant, environments, appCreated,
                   environmentName, deploymentRoleName, stacks, policies,
                   resources, database, bucket, outputs, dependencies, synthed,
                   network, baseVersion>>

\* cdk.ts:31 -- `Eah${charAt(0).toUpperCase() + slice(1)}Role`
DeploymentRoleName(environment) ==
    "Eah" \o ToUpperCase(SubSeq(environment, 1, 1))
          \o SubSeq(environment, 2, Len(environment)) \o "Role"

\* cdk.ts:22-31 -- a value that is no configuration has no `environment`, and
\* reading charAt of undefined is a TypeError.
BuildStackProps ==
    /\ pc = "props"
    /\ IF environmentConfig.type = "config"
       THEN /\ deploymentRoleName' = DeploymentRoleName(environmentConfig.environment)
            /\ pc' = "baseStack"
            /\ err' = err
       ELSE /\ Throw([kind |-> "TypeError", at |-> "cdk.ts:31",
                      varName |-> "", envName |-> ""])
            /\ deploymentRoleName' = deploymentRoleName
    /\ UNCHANGED <<processEnv, context, variant, environments, appCreated,
                   environmentName, environmentConfig, stacks, policies,
                   resources, database, bucket, outputs, dependencies, synthed,
                   network, baseVersion>>

\* A stack built with stackProps: its env is the configuration's account and
\* region.
StackOf(id, config) ==
    [id |-> id, account |-> config.account, region |-> config.region]

\* cdk.ts:34-35
NewBaseCdkStack ==
    /\ pc = "baseStack"
    /\ stacks' = stacks \cup {StackOf("BaseCdkPermissionsStack", environmentConfig)}
    /\ pc' = "basePermissions"
    /\ UNCHANGED <<processEnv, context, variant, err, environments, appCreated,
                   environmentName, environmentConfig, deploymentRoleName,
                   policies, resources, database, bucket, outputs,
                   dependencies, synthed,
                   network, baseVersion>>

\* this.node.addr: the construct library's hash of the construct's path, an
\* opaque token that depends on the path alone.
NodeAddr(path) == "c8[" \o path \o "]"

ManagedPolicy(stack, id, namePrefix, environment, addr, statements) ==
    [stack |-> stack, id |-> id,
     managedPolicyName |-> namePrefix \o environment \o "-" \o addr,
     statements |-> statements]

\* new iam.PolicyStatement({sid, effect: ALLOW, actions, resources, conditions}):
\* requestedRegion is the value of the StringEquals aws:RequestedRegion
\* condition, undefined when the statement has no condition.
PolicyStatement(sid, actions, arns, requestedRegion) ==
    [sid |-> sid, effect |-> "Allow", actions |-> actions,
     resources |-> arns, requestedRegion |-> requestedRegion]

CloudFormationActions ==
    {"cloudformation:DescribeStacks", "cloudformation:DescribeStackEvents",
     "cloudformation:DescribeStackResources", "cloudformation:DescribeStackResource",
     "cloudformation:GetTemplate", "cloudformation:ListStackResources",
     "cloudformation:ListStacks", "cloudformation:CreateChangeSet",
     "cloudformation:DescribeChangeSet", "cloudformation:ExecuteChangeSet",
     "cloudformation:DeleteChangeSet", "cloudformation:CreateStack",
     "cloudformation:UpdateStack", "cloudformation:DeleteStack",
     "cloudformation:TagResource", "cloudformation:UntagResource",
     "cloudformation:ListTagsForResource"}

S3AssetsActions ==
    {"s3:GetObject", "s3:GetObjectVersion", "s3:PutObject", "s3:PutObjectAcl",
     "s3:DeleteObject", "s3:ListBucket", "s3:GetBucketLocation"}

SSMActions == {"ssm:GetParameter", "ssm:GetParameters", "ssm:GetParametersByPath"}

ECRActions ==
    {"ecr:GetAuthorizationToken", "ecr:BatchCheckLayerAvailability",
     "ecr:GetDownloadUrlForLayer", "ecr:BatchGetImage", "ecr:DescribeRepositories",
     "ecr:ListImages", "ecr:DescribeImages", "ecr:BatchDeleteImage",
     "ecr:InitiateLayerUpload", "ecr:UploadLayerPart", "ecr:CompleteLayerUpload",
     "ecr:PutImage"}

EC2MinimalVpcActions ==
    {"ec2:CreateVpc", "ec2:DeleteVpc", "ec2:DescribeVpcs", "ec2:ModifyVpcAttribute",
     "ec2:CreateSubnet", "ec2:DeleteSubnet", "ec2:DescribeSubnets",
     "ec2:ModifySubnetAttribute", "ec2:CreateRouteTable", "ec2:DeleteRouteTable",
     "ec2:DescribeRouteTables", "ec2:AssociateRouteTable",
     "ec2:DisassociateRouteTable", "ec2:CreateSecurityGroup",
     "ec2:DeleteSecurityGroup", "ec2:DescribeSecurityGroups",
     "ec2:AuthorizeSecurityGroupIngress", "ec2:AuthorizeSecurityGroupEgress",
     "ec2:RevokeSecurityGroupIngress", "ec2:RevokeSecurityGroupEgress",
     "ec2:DescribeAvailabilityZones", "ec2:DescribeAccountAttributes",
     "ec2:CreateTags", "ec2:DeleteTags", "ec2:DescribeTags"}

\* The cdk-*-<suffix> bootstrap roles the deployment role may assume; the
\* lookup role is in the later version only.
BootstrapRoles(version) ==
    {"cfn-exec-role-*", "deploy-role-*", "file-publishing-role-*",
     "image-publishing-role-*"}
        \cup (IF version = "sixPolicies" THEN {"lookup-role-*"} ELSE {})

\* The stack names of the CloudFormation statement's ARNs.
CloudFormationStacks(version) ==
    {"Notes*", "CDKToolkit"}
        \cup (IF version = "sixPolicies" THEN {"BaseCdkPermissionsStack"} ELSE {})

\* BaseCdkPermissions: the managed policies it builds and attaches, five in
\* one version of the construct and six, with EC2Policy, in the other.
BaseCdkPolicies(version, environment, accountId, region) ==
    LET addr == NodeAddr("BaseCdkPermissionsStack/BaseCdkPermissions")
        P(id, prefix, statements) ==
            ManagedPolicy("BaseCdkPermissionsStack", id, prefix, environment,
                          addr, statements)
        role(suffix) == "arn:aws:iam::" \o accountId \o ":role/cdk-*-" \o suffix
        stack(name) == "arn:aws:cloudformation:" \o region \o ":" \o accountId
                           \o ":stack/" \o name \o "/*"
        assets == "arn:aws:s3:::cdk-*-assets-" \o accountId \o "-" \o region
    IN  {P("CdkBootstrapPolicy", "EAH-CDK-Bootstrap-",
           {PolicyStatement("AssumeBootstrapRoles", {"sts:AssumeRole"},
                {role(r) : r \in BootstrapRoles(version)}, Str(region))}),
         P("CloudFormationPolicy", "EAH-CDK-CloudFormation-",
           {PolicyStatement("CloudFormationAccess", CloudFormationActions,
                {stack(n) : n \in CloudFormationStacks(version)}, Undefined)}),
         P("S3AssetsPolicy", "EAH-CDK-S3Assets-",
           {PolicyStatement("S3AssetsAccess", S3AssetsActions,
                {assets, assets \o "/*"}, Undefined)}),
         P("SSMPolicy", "EAH-CDK-SSM-",
           {PolicyStatement("SSMParameterAccess", SSMActions,
                {"arn:aws:ssm:" \o region \o ":" \o accountId
                     \o ":parameter/cdk-bootstrap/*"},
                Undefined)}),
         P("ECRPolicy", "EAH-CDK-ECR-",
           {PolicyStatement("ECRAccess", ECRActions,
                {"arn:aws:ecr:" \o region \o ":" \o accountId \o ":repository/cdk-*"},
                Undefined),
            PolicyStatement("ECRTokenAccess", {"ecr:GetAuthorizationToken"},
                {"*"}, Str(region))})}
        \cup (IF version = "sixPolicies"
              THEN {P("EC2Policy", "EAH-CDK-EC2-",
                      {PolicyStatement("EC2MinimalVPCAccess", EC2MinimalVpcActions,
                           {"*"}, Str(region))})}
              ELSE {})

\* A CfnOutput: exportName is undefined when the output is not exported.
Output(stack, id, exportName) ==
    [stack |-> stack, id |-> id, exportName |-> exportName]

\* The five-policy version reports its count in an output.
BaseCdkOutputs(version) ==
    IF version = "fivePolicies"
    THEN {Output("BaseCdkPermissionsStack", "BaseCdkPoliciesAttached", Undefined)}
    ELSE {}

\* cdk.ts:38-43
NewBaseCdkPermissions ==
    /\ pc = "basePermissions"
    /\ policies' = policies \cup BaseCdkPolicies(baseVersion,
                                                  environmentConfig.environment,
                                                  environmentConfig.account,
                                                  environmentConfig.region)
    /\ outputs' = outputs \cup BaseCdkOutputs(baseVersion)
    /\ pc' = "statefulStack"
    /\ UNCHANGED <<processEnv, context, variant, err, environments, appCreated,
                   environmentName, environmentConfig, deploymentRoleName,
                   stacks, resources, database, bucket, dependencies,
                   synthed, network, baseVersion>>

RDSActions ==
    {"rds:CreateDBInstance", "rds:DeleteDBInstance", "rds:ModifyDBInstance",
     "rds:DescribeDBInstances", "rds:DescribeDBClusters",
     "rds:DescribeDBSubnetGroups", "rds:CreateDBSubnetGroup",
     "rds:DeleteDBSubnetGroup", "rds:ModifyDBSubnetGroup", "rds:AddTagsToResource",
     "rds:RemoveTagsFromResource", "rds:ListTagsForResource",
     "rds:DescribeDBParameterGroups", "rds:CreateDBParameterGroup",
     "rds:DeleteDBParameterGroup", "rds:ModifyDBParameterGroup"}

S3BucketActions ==
    {"s3:CreateBucket", "s3:DeleteBucket", "s3:GetBucketLocation",
     "s3:GetBucketPolicy", "s3:PutBucketPolicy", "s3:DeleteBucketPolicy",
     "s3:GetBucketCors", "s3:PutBucketCors", "s3:GetBucketVersioning",
     "s3:PutBucketVersioning", "s3:GetEncryptionConfiguration",
     "s3:PutEncryptionConfiguration", "s3:GetBucketPublicAccessBlock",
     "s3:PutBucketPublicAccessBlock", "s3:GetLifecycleConfiguration",
     "s3:PutLifecycleConfiguration", "s3:ListBucket", "s3:GetBucketTagging",
     "s3:PutBucketTagging"}

VPCActions ==
    {"ec2:CreateVpc", "ec2:DeleteVpc", "ec2:ModifyVpcAttribute", "ec2:DescribeVpcs",
     "ec2:CreateSubnet", "ec2:DeleteSubnet", "ec2:ModifySubnetAttribute",
     "ec2:DescribeSubnets", "ec2:CreateInternetGateway", "ec2:DeleteInternetGateway",
     "ec2:AttachInternetGateway", "ec2:DetachInternetGateway",
     "ec2:DescribeInternetGateways", "ec2:CreateRouteTable", "ec2:DeleteRouteTable",
     "ec2:CreateRoute", "ec2:DeleteRoute", "ec2:AssociateRouteTable",
     "ec2:DisassociateRouteTable", "ec2:DescribeRouteTables",
     "ec2:CreateSecurityGroup", "ec2:DeleteSecurityGroup",
     "ec2:AuthorizeSecurityGroupIngress", "ec2:AuthorizeSecurityGroupEgress",
     "ec2:RevokeSecurityGroupIngress", "ec2:RevokeSecurityGroupEgress",
     "ec2:DescribeSecurityGroups", "ec2:CreateTags", "ec2:DeleteTags",
     "ec2:DescribeTags", "ec2:DescribeAvailabilityZones",
     "ec2:DescribeAccountAttributes", "ec2:CreateNatGateway", "ec2:DeleteNatGateway",
     "ec2:DescribeNatGateways", "ec2:AllocateAddress", "ec2:ReleaseAddress",
     "ec2:DescribeAddresses"}

SecretsManagerActions ==
    {"secretsmanager:CreateSecret", "secretsmanager:DeleteSecret",
     "secretsmanager:UpdateSecret", "secretsmanager:DescribeSecret",
     "secretsmanager:GetSecretValue", "secretsmanager:PutSecretValue",
     "secretsmanager:TagResource", "secretsmanager:UntagResource",
     "secretsmanager:GetResourcePolicy", "secretsmanager:PutResourcePolicy"}

\* `eah-${environment}`: the prefix the stack's policies scope their ARNs by.
PolicyResourcePrefix(config) == "eah-" \o config.environment

\* `arn:aws:s3:::eah-${environment}-images-${account}`
S3PolicyBucketArn(config) ==
    "arn:aws:s3:::" \o PolicyResourcePrefix(config) \o "-images-" \o config.account

\* `arn:aws:secretsmanager:${region}:${account}:secret:eah-${environment}-*`
SecretsPolicyArn(config) ==
    "arn:aws:secretsmanager:" \o config.region \o ":" \o config.account
        \o ":secret:" \o PolicyResourcePrefix(config) \o "-*"

\* `arn:aws:rds:${region}:${account}:<kind>:eah-${environment}-*`
RDSPolicyArn(config, kind) ==
    "arn:aws:rds:" \o config.region \o ":" \o config.account \o ":" \o kind
        \o ":" \o PolicyResourcePrefix(config) \o "-*"

\* Mutant of StatefulPolicies: the Secrets Manager policy is not built.
StatefulPolicies_withoutSecrets(config) ==
    LET addr == NodeAddr("NotesStatefulStack")
        P(id, prefix, statements) ==
            ManagedPolicy("NotesStatefulStack", id, prefix, config.environment,
                          addr, statements)
    IN  {P("StatefulRDSPolicy", "EAH-Stateful-RDS-",
           {PolicyStatement("RDSManagement", RDSActions,
                {RDSPolicyArn(config, k) : k \in {"db", "cluster", "subnet-group", "pg"}},
                Undefined)}),
         P("StatefulS3Policy", "EAH-Stateful-S3-",
           {PolicyStatement("S3BucketManagement", S3BucketActions,
                {S3PolicyBucketArn(config)}, Undefined)}),
         P("StatefulVPCPolicy", "EAH-Stateful-VPC-",
           {PolicyStatement("VPCManagement", VPCActions, {"*"}, Str(config.region))})}

\* attachStatefulResourcePolicies: the four managed policies of the stack.
StatefulPolicies(config) ==
    LET addr == NodeAddr("NotesStatefulStack")
        P(id, prefix, statements) ==
            ManagedPolicy("NotesStatefulStack", id, prefix, config.environment,
                          addr, statements)
    IN  {P("StatefulRDSPolicy", "EAH-Stateful-RDS-",
           {PolicyStatement("RDSManagement", RDSActions,
                {RDSPolicyArn(config, k) : k \in {"db", "cluster", "subnet-group", "pg"}},
                Undefined)}),
         P("StatefulS3Policy", "EAH-Stateful-S3-",
           {PolicyStatement("S3BucketManagement", S3BucketActions,
                {S3PolicyBucketArn(config)}, Undefined)}),
         P("StatefulVPCPolicy", "EAH-Stateful-VPC-",
           {PolicyStatement("VPCManagement", VPCActions, {"*"}, Str(config.region))}),
         P("StatefulSecretsPolicy", "EAH-Stateful-Secrets-",
           {PolicyStatement("SecretsManagerAccess", SecretsManagerActions,
                {SecretsPolicyArn(config)}, Undefined)})}

\* `${environmentConfig.environment}-<id>`
ExportName(config, id) == Str(config.environment \o "-" \o id)

\* Mutant of AttachStatefulResourcePolicies: the policies are built but the
\* constructor goes on without attaching them to the role.
AttachStatefulResourcePolicies_unattached ==
    /\ pc = "statefulStack"
    /\ stacks' = stacks \cup {StackOf("NotesStatefulStack", environmentConfig)}
    /\ outputs' = outputs \cup
                    {Output("NotesStatefulStack", "AttachedPolicies", Undefined)}
    /\ pc' = "stateful"
    /\ UNCHANGED <<processEnv, context, variant, err, environments, appCreated,
                   environmentName, environmentConfig, deploymentRoleName,
                   policies, resources, database, bucket, dependencies, synthed,
                   network, baseVersion>>

\* cdk.ts:46-49, NotesStatefulStack.ts:23-31 -- the stack is created, the
\* role imported and the stack's policies attached.
AttachStatefulResourcePolicies ==
    /\ pc = "statefulStack"
    /\ stacks' = stacks \cup {StackOf("NotesStatefulStack", environmentConfig)}
    /\ policies' = policies \cup StatefulPolicies(environmentConfig)
    /\ outputs' = outputs \cup
                    {Output("NotesStatefulStack", "AttachedPolicies", Undefined)}
    /\ pc' = "stateful"
    /\ UNCHANGED <<processEnv, context, variant, err, environments, appCreated,
                   environmentName, environmentConfig, deploymentRoleName,
                   resources, database, bucket, dependencies, synthed,
                   network, baseVersion>>

(***************************************************************************)
(* NotesVpc and the three sources of NotesStateful                         *)
(***************************************************************************)
Resource(kind, id, name) == [kind |-> kind, id |-> id, name |-> name]

\* `${environmentConfig.resourcePrefix}-vpc`
VpcName(config) == Str(config.resourcePrefix \o "-vpc")

\* v?.resourcePrefix: undefined and strings have no such property.
OptionalResourcePrefix(v) ==
    IF v.type = "config" THEN Str(v.resourcePrefix) ELSE Undefined

\* `${this.node.tryGetContext('environmentConfig')?.resourcePrefix || 'eah'}<suffix>`
SecurityGroupName(ctx, suffix) ==
    LET prefix == OptionalResourcePrefix(ctx["environmentConfig"])
    IN  Str((IF Falsy(prefix) THEN "eah" ELSE prefix.val) \o suffix)

\* `eah_${environmentConfig.environment}`
DatabaseName(config) == Str("eah_" \o config.environment)

\* `${environmentConfig.resourcePrefix}-db-credentials`
SecretName(config) == Str(config.resourcePrefix \o "-db-credentials")

\* `${environmentConfig.resourcePrefix}-images-${cdk.Aws.ACCOUNT_ID}`: the
\* token is the account the stack is deployed to.
BucketName(config) ==
    Str(config.resourcePrefix \o "-images-" \o config.account)

\* NotesVpc.ts:22-51, 87-107: the VPC and the three security groups.
NotesVpcResources(config, ctx) ==
    {Resource("vpc", "Vpc", VpcName(config)),
     Resource("securityGroup", "DatabaseSecurityGroup",
              SecurityGroupName(ctx, "-db-sg")),
     Resource("securityGroup", "ApplicationSecurityGroup",
              SecurityGroupName(ctx, "-app-sg")),
     Resource("securityGroup", "LoadBalancerSecurityGroup",
              SecurityGroupName(ctx, "-alb-sg"))}

\* A rule added with addIngressRule / addEgressRule: peer is a security
\* group's construct id or AnyIpv4.
SecurityGroupRule(group, direction, peer, port) ==
    [group |-> group, direction |-> direction, peer |-> peer,
     protocol |-> "tcp", port |-> port]

\* ec2.Peer.anyIpv4()
AnyIpv4 == "0.0.0.0/0"

\* Mutant of ConfigureSecurityGroupRules: the database accepts PostgreSQL
\* from any address.
ConfigureSecurityGroupRules_dbOpen(dbSg, appSg, albSg) ==
    {SecurityGroupRule(albSg, "ingress", AnyIpv4, 443),
     SecurityGroupRule(albSg, "ingress", AnyIpv4, 80),
     SecurityGroupRule(appSg, "ingress", albSg, 3000),
     SecurityGroupRule(dbSg, "ingress", AnyIpv4, 5432),
     SecurityGroupRule(appSg, "egress", AnyIpv4, 443),
     SecurityGroupRule(appSg, "egress", AnyIpv4, 80)}

\* Mutant of ConfigureSecurityGroupRules: the application accepts the load
\* balancer on port 80 and the load balancer accepts HTTPS only.
ConfigureSecurityGroupRules_ports(dbSg, appSg, albSg) ==
    {SecurityGroupRule(albSg, "ingress", AnyIpv4, 443),
     SecurityGroupRule(appSg, "ingress", albSg, 80),
     SecurityGroupRule(dbSg, "ingress", appSg, 5432),
     SecurityGroupRule(appSg, "egress", AnyIpv4, 443),
     SecurityGroupRule(appSg, "egress", AnyIpv4, 80)}

\* Mutant of ConfigureSecurityGroupRules: group and peer of the database rule
\* are swapped.
ConfigureSecurityGroupRules_swapped(dbSg, appSg, albSg) ==
    {SecurityGroupRule(albSg, "ingress", AnyIpv4, 443),
     SecurityGroupRule(albSg, "ingress", AnyIpv4, 80),
     SecurityGroupRule(appSg, "ingress", albSg, 3000),
     SecurityGroupRule(appSg, "ingress", dbSg, 5432),
     SecurityGroupRule(appSg, "egress", AnyIpv4, 443),
     SecurityGroupRule(appSg, "egress", AnyIpv4, 80)}

\* NotesVpc.configureSecurityGroupRules: the six addIngressRule /
\* addEgressRule calls.
ConfigureSecurityGroupRules(dbSg, appSg, albSg) ==
    {SecurityGroupRule(albSg, "ingress", AnyIpv4, 443),
     SecurityGroupRule(albSg, "ingress", AnyIpv4, 80),
     SecurityGroupRule(appSg, "ingress", albSg, 3000),
     SecurityGroupRule(dbSg, "ingress", appSg, 5432),
     SecurityGroupRule(appSg, "egress", AnyIpv4, 443),
     SecurityGroupRule(appSg, "egress", AnyIpv4, 80)}

SubnetConfiguration(name, subnetType, cidrMask) ==
    [name |-> name, subnetType |-> subnetType, cidrMask |-> cidrMask]

\* Mutant of NotesVpcNetwork: one NAT gateway in every environment.
NotesVpcNetwork_oneNat(config) ==
    [type |-> "vpc",
     id |-> "Vpc",
     cidr |-> "10.0.0.0/16",
     maxAzs |-> IF config.environment = "prod" THEN 3 ELSE 2,
     natGateways |-> 1,
     subnetConfiguration |->
         {SubnetConfiguration("Public", "PUBLIC", 24),
          SubnetConfiguration("Private", "PRIVATE_WITH_EGRESS", 24),
          SubnetConfiguration("Database", "PRIVATE_ISOLATED", 28)},
     rules |-> ConfigureSecurityGroupRules("DatabaseSecurityGroup",
                   "ApplicationSecurityGroup", "LoadBalancerSecurityGroup")]

\* NotesVpc.ts:22-51, 110: the VPC of NotesVpc and the rules of its groups.
NotesVpcNetwork(config) ==
    [type |-> "vpc",
     id |-> "Vpc",
     cidr |-> "10.0.0.0/16",
     maxAzs |-> IF config.environment = "prod" THEN 3 ELSE 2,
     natGateways |-> IF config.environment = "prod" THEN 2 ELSE 1,
     subnetConfiguration |->
         {SubnetConfiguration("Public", "PUBLIC", 24),
          SubnetConfiguration("Private", "PRIVATE_WITH_EGRESS", 24),
          SubnetConfiguration("Database", "PRIVATE_ISOLATED", 28)},
     rules |-> ConfigureSecurityGroupRules("DatabaseSecurityGroup",
                   "ApplicationSecurityGroup", "LoadBalancerSecurityGroup")]

\* part_003:22-33: the minimal VPC, the same in every environment.
SimpleVpcNetwork ==
    [type |-> "vpc",
     id |-> "SimpleVpc",
     cidr |-> "10.0.0.0/16",
     maxAzs |-> 2,
     natGateways |-> 0,
     subnetConfiguration |-> {SubnetConfiguration("Database", "PRIVATE_ISOLATED", 24)},
     rules |-> {}]

\* NotesVpc.ts:113 -- databaseSecurityGroup is an accessor with a getter and no
\* setter; class bodies are strict code, where assigning to it is a TypeError.
StoreSecurityGroups == Threw("TypeError", "NotesVpc.ts:113", "", "")

\* NotesVpc.ts:167-177 -- each getter returns the property of its own name,
\* which is the getter again: the call never returns a group and ends with
\* the stack exhausted.
ReadSecurityGroup == Threw("RangeError", "NotesVpc.ts:168", "", "")

\* Whether the NotesStateful construct of the variant declares a vpc field.
HasVpcField(v) == v = "customVpc"

\* Mutant of DatabaseInstance: replication is switched on whatever the
\* configuration says.
DatabaseInstance_multiAz(config, placement) ==
    [type |-> "database",
     engine |-> "postgres-15",
     instanceClass |-> "db.t3.micro",
     multiAz |-> TRUE,
     allocatedStorage |-> config.allocatedStorage,
     deletionProtection |-> config.deletionProtection,
     backupRetentionDays |-> 3,
     network |-> placement]

\* new rds.DatabaseInstance(...): the sizing comes from the configuration,
\* the placement (vpc, vpcSubnets, securityGroups, publiclyAccessible) from
\* the source of the construct.
DatabaseInstance(config, placement) ==
    [type |-> "database",
     engine |-> "postgres-15",
     instanceClass |-> "db.t3.micro",
     multiAz |-> config.multiAz,
     allocatedStorage |-> config.allocatedStorage,
     deletionProtection |-> config.deletionProtection,
     backupRetentionDays |-> 3,
     network |-> placement]

\* Mutant of ImagesBucket: incomplete uploads are kept for a week.
ImagesBucket_sevenDays(config) ==
    [type |-> "bucket",
     bucketName |-> BucketName(config),
     blockPublicAccess |-> "BLOCK_ALL",
     encryption |-> "S3_MANAGED",
     abortIncompleteMultipartUploadAfterDays |-> 7,
     versioned |-> FALSE]

\* new s3.Bucket(...): the same in the three sources.
ImagesBucket(config) ==
    [type |-> "bucket",
     bucketName |-> BucketName(config),
     blockPublicAccess |-> "BLOCK_ALL",
     encryption |-> "S3_MANAGED",
     abortIncompleteMultipartUploadAfterDays |-> 1,
     versioned |-> FALSE]

\* The database, its generated secret and the bucket.
StatefulResources(config) ==
    {Resource("database", "Database", DatabaseName(config)),
     Resource("secret", "Database/Secret", SecretName(config)),
     Resource("bucket", "ImagesBucket", BucketName(config))}

\* The vpc, vpcSubnets, securityGroups and publiclyAccessible properties each
\* source gives its database; "default" is a property the source leaves out.
NetworkOf(v) ==
    CASE v = "defaultVpc" ->
            [vpc |-> "DefaultVpc", vpcSubnets |-> "default",
             securityGroups |-> {}, publiclyAccessible |-> "false"]
      [] v = "simpleVpc" ->
            [vpc |-> "SimpleVpc", vpcSubnets |-> "PRIVATE_ISOLATED",
             securityGroups |-> {}, publiclyAccessible |-> "false"]
      [] v = "customVpc" ->
            [vpc |-> "Vpc", vpcSubnets |-> "PRIVATE_ISOLATED",
             securityGroups |-> {"DatabaseSecurityGroup"},
             publiclyAccessible |-> "default"]

\* NotesStatefulStack.ts:34-36 -- new NotesStateful(...).  The source with the
\* custom VPC builds a NotesVpc first, whose constructor throws when it
\* stores the security groups; the other two build their network, the
\* database and the bucket.
NewNotesStateful ==
    /\ pc = "stateful"
    /\ IF variant = "customVpc"
       THEN /\ resources' = resources \cup NotesVpcResources(environmentConfig, context)
            /\ network' = NotesVpcNetwork(environmentConfig)
            /\ Throw(StoreSecurityGroups.error)
            /\ UNCHANGED <<database, bucket>>
       ELSE /\ resources' = resources
                  \cup (IF variant = "simpleVpc"
                        THEN {Resource("vpc", "SimpleVpc", Undefined)}
                        ELSE {})
                  \cup StatefulResources(environmentConfig)
            /\ network' = IF variant = "simpleVpc" THEN SimpleVpcNetwork ELSE network
            /\ database' = DatabaseInstance(environmentConfig, NetworkOf(variant))
            /\ bucket' = ImagesBucket(environmentConfig)
            /\ pc' = "outputs"
            /\ err' = err
    /\ UNCHANGED <<processEnv, context, variant, environments, appCreated,
                   environmentName, environmentConfig, deploymentRoleName,
                   stacks, policies, outputs, dependencies, synthed,
                   baseVersion>>

\* NotesStatefulStack.ts:44-66
StatefulOutputs(config) ==
    {Output("NotesStatefulStack", id, ExportName(config, id)) :
        id \in {"DatabaseEndpoint", "DatabasePort", "S3BucketName", "S3BucketArn"}}

\* NotesStatefulStack.ts:71-111
VpcOutputs(config) ==
    {Output("NotesStatefulStack", id, ExportName(config, id)) :
        id \in {"VpcId", "VpcCidr", "ApplicationSubnets", "PublicSubnets",
                "DatabaseSubnets", "ApplicationSecurityGroupId",
                "LoadBalancerSecurityGroupId"}}

\* NotesStatefulStack.ts:39-116 and, when the constructor returns, cdk.ts:52-54.
\* A construct without a vpc field leaves stateful.vpc undefined, and reading
\* stateful.vpc.vpc for the first VPC output is a TypeError.
DeclareOutputsAndSynth ==
    /\ pc = "outputs"
    /\ IF HasVpcField(variant)
       THEN /\ outputs' = outputs \cup StatefulOutputs(environmentConfig)
                                  \cup VpcOutputs(environmentConfig)
            /\ dependencies' = dependencies \cup
                   {<<"NotesStatefulStack", "BaseCdkPermissionsStack">>}
            /\ synthed' = TRUE
            /\ pc' = "done"
            /\ err' = err
       ELSE /\ outputs' = outputs \cup StatefulOutputs(environmentConfig)
            /\ Throw([kind |-> "TypeError", at |-> "NotesStatefulStack.ts:72",
                      varName |-> "", envName |-> ""])
            /\ UNCHANGED <<dependencies, synthed>>
    /\ UNCHANGED <<processEnv, context, variant, environments, appCreated,
                   environmentName, environmentConfig, deploymentRoleName,
                   stacks, policies, resources, database, bucket,
                   network, baseVersion>>

\* notesStatefulStack.addDependency(baseCdkStack) makes the toolchain deploy
\* the stack depended on first: the orders it may deploy the stacks in are
\* the orderings of the stacks in which every declared edge <<a, b>>, a
\* depending on b, has b before a.
DeploymentOrders(stackIds, edges) ==
    {order \in [1..Cardinality(stackIds) -> stackIds] :
        /\ \A i, j \in DOMAIN order : order[i] = order[j] => i = j
        /\ \A e \in edges :
              (e[1] \in stackIds /\ e[2] \in stackIds) =>
                  \A i, j \in DOMAIN order :
                      (order[i] = e[1] /\ order[j] = e[2]) => j < i}

Next ==
    \/ LoadEnvironments
    \/ NewApp
    \/ ReadContext
    \/ CheckSelector
    \/ ResolveConfig
    \/ BuildStackProps
    \/ NewBaseCdkStack
    \/ NewBaseCdkPermissions
    \/ AttachStatefulResourcePolicies
    \/ NewNotesStateful
    \/ DeclareOutputsAndSynth

Spec == Init /\ [][Next]_vars

(***************************************************************************)
(* Properties                                                              *)
(***************************************************************************)
SupportedNames == {Str(k) : k \in OwnKeys}

\* getEnvironmentConfig has returned a value to cdk.ts.
Resolved == environmentConfig # Undefined

NothingBuilt ==
    /\ stacks = {}
    /\ policies = {}
    /\ resources = {}
    /\ database = NoDatabase
    /\ bucket = NoBucket
    /\ outputs = {}
    /\ dependencies = {}
    /\ ~synthed
    /\ network = NoNetwork

\* C1: getEnvironmentConfig returns a configuration only for 'preprod' and
\* 'prod'; for every other name, the names inherited from Object.prototype
\* included, it throws and returns nothing.
C1_OnlySupportedNamesResolve ==
    Resolved => environmentName \in SupportedNames

\* C2: for each supported name n, getEnvironmentConfig(n) returns a
\* configuration whose environment field is n and whose resourcePrefix
\* contains n as a substring; so does the configuration a run resolves.
C2_ConfigNamesItsEnvironment ==
    /\ environments # NotLoaded =>
          \A k \in OwnKeys :
              LET r == GetEnvironmentConfig(environments, Str(k))
              IN  /\ r.ok
                  /\ r.value.environment = k
                  /\ Contains(r.value.resourcePrefix, k)
    /\ (Resolved /\ environmentName \in SupportedNames) =>
          /\ environmentConfig.environment = environmentName.val
          /\ Contains(environmentConfig.resourcePrefix, environmentName.val)

C2_Witness ==
    /\ pc = "props"
    /\ environmentName = Str("prod")
    /\ environmentConfig.type = "config"

\* C3: the database built for 'prod' has multiAz = true, allocatedStorage =
\* 100 and deletionProtection = true; the database built for 'preprod' has
\* multiAz = false, allocatedStorage = 20 and deletionProtection = false.
C3_DatabaseSizingPerEnvironment ==
    database # NoDatabase =>
        /\ environmentName = Str("prod") =>
              /\ database.multiAz = TRUE
              /\ database.allocatedStorage = 100
              /\ database.deletionProtection = TRUE
        /\ environmentName = Str("preprod") =>
              /\ database.multiAz = FALSE
              /\ database.allocatedStorage = 20
              /\ database.deletionProtection = FALSE

C5_AccountIdVariableOf(k) ==
    CASE k = "preprod" -> "PREPROD_AWS_ACCOUNT_ID"
      [] k = "prod"    -> "PROD_AWS_ACCOUNT_ID"

\* C5: when the account-id variable of an environment is absent, loading the
\* configuration raises an error that names a missing variable and the
\* environment that variable belongs to (the preprod variable with 'preprod',
\* the prod variable with 'prod').
C5_ErrorNamesVariableAndEnvironment ==
    (pc # "load" /\ \E k \in OwnKeys : Falsy(processEnv[C5_AccountIdVariableOf(k)])) =>
        /\ pc = "error"
        /\ err.kind = "MissingEnvVar"
        /\ \E k \in OwnKeys :
              /\ Falsy(processEnv[C5_AccountIdVariableOf(k)])
              /\ err.varName = C5_AccountIdVariableOf(k)
              /\ err.envName = k

\* C6: when the 'environment' selector is absent (undefined or empty), the
\* invocation never gets past the selector check: it ends in an error there
\* (or earlier, while the configuration module loads), no configuration is
\* resolved, no stack is created and synth is not reached.
C6_MissingSelectorAborts ==
    Falsy(context["environment"]) =>
        /\ ~Resolved
        /\ NothingBuilt
        /\ pc \in {"load", "app", "context", "check", "error"}
        /\ pc = "error" => err.kind \in {"MissingEnvVar", "ContextRequired"}

C6_Witness ==
    /\ pc = "error"
    /\ err.kind = "ContextRequired"
    /\ context["environment"] = Str("")
    /\ appCreated

ConfigurationErrors == {"ContextRequired", "EnvNotFound", "MissingEnvVar"}

\* C7: once a configuration error has been raised (missing selector,
\* unrecognized environment name, missing account id, or the TypeError an
\* unrecognized inherited name causes at cdk.ts:31), the invocation has halted
\* and no stack, policy, VPC, database, bucket or output has been constructed
\* and synth has not been called.
C7_ConfigErrorBuildsNothing ==
    (err.kind \in ConfigurationErrors \/ err.at = "cdk.ts:31") =>
        /\ pc = "error"
        /\ NothingBuilt

C7_Witness ==
    /\ pc = "error"
    /\ err.kind = "EnvNotFound"
    /\ environmentName = Str("staging")
    /\ appCreated

\* C8: the prod account id is taken from an input distinct from the one that
\* supplies the preprod account id.
C8_DistinctAccountInputs ==
    environments # NotLoaded =>
        AccountIdVar("prod") # AccountIdVar("preprod")

\* Every name given to something built so far: resources, managed policies,
\* exported outputs.
DerivedNames ==
    {r.name.val : r \in {x \in resources : x.name # Undefined}}
        \cup {p.managedPolicyName : p \in policies}
        \cup {o.exportName.val : o \in {x \in outputs : x.exportName # Undefined}}

\* C9: every resource identifier derived while building the stacks embeds the
\* environment name of the configuration.
C9_NamesEmbedEnvironment ==
    (Resolved /\ environmentConfig.type = "config") =>
        \A n \in DerivedNames : Contains(n, environmentConfig.environment)

\* The named resources derived from one configuration.
C10_NamedResources(config) ==
    [bucket |-> BucketName(config),
     secret |-> SecretName(config),
     vpc |-> VpcName(config),
     dbSg |-> SecurityGroupName(context, "-db-sg"),
     appSg |-> SecurityGroupName(context, "-app-sg"),
     albSg |-> SecurityGroupName(context, "-alb-sg")]

\* C10: whenever the preprod and prod configurations target the same account
\* and region, each named resource of one differs from the resource of the
\* same kind of the other.
C10_NoCrossEnvironmentCollision ==
    environments # NotLoaded =>
        LET a == environments.preprod
            b == environments.prod
        IN  (a.account = b.account /\ a.region = b.region) =>
                \A f \in DOMAIN C10_NamedResources(a) :
                    C10_NamedResources(a)[f] # C10_NamedResources(b)[f]

\* The policies of attachStatefulResourcePolicies are attached.
StatefulPoliciesAttached == \E p \in policies : p.stack = "NotesStatefulStack"

\* A statement whose resource list is '*' alone and which carries the region
\* condition.
RegionConditionedWildcard(s) ==
    s.resources = {"*"} /\ s.requestedRegion # Undefined

C11_ScopedPolicies == {"StatefulRDSPolicy", "StatefulS3Policy", "StatefulSecretsPolicy"}

\* C11: every resource ARN pattern of the RDS, application-S3 and Secrets
\* Manager policies of attachStatefulResourcePolicies contains the
\* resourcePrefix of the configuration; only statements on '*' with a region
\* condition are exempt.
C11_ArnsContainResourcePrefix ==
    \A p \in policies :
        p.id \in C11_ScopedPolicies =>
            \A s \in p.statements :
                ~RegionConditionedWildcard(s) =>
                    \A arn \in s.resources :
                        Contains(arn, environmentConfig.resourcePrefix)

StartsWith(s, prefix) ==
    Len(s) >= Len(prefix) /\ SubSeq(s, 1, Len(prefix)) = prefix

\* An ARN pattern ending in '*' matches the ARNs that start with the rest.
MatchesPattern(arn, pattern) ==
    StartsWith(arn, SubSeq(pattern, 1, Len(pattern) - 1))

\* The ARN of the secret of the given name, without its generated suffix.
C12_SecretArn(config, name) ==
    "arn:aws:secretsmanager:" \o config.region \o ":" \o config.account
        \o ":secret:" \o name

\* C12: the name of the images bucket is the bucket named by the S3 policy's
\* ARN, and the name of the credentials secret matches the pattern of the
\* Secrets Manager policy, eah-<environment>-*.
C12_BucketAndSecretMatchPolicies ==
    bucket # NoBucket =>
        /\ \A p \in policies :
              p.id = "StatefulS3Policy" =>
                  \A s \in p.statements :
                      s.resources = {"arn:aws:s3:::" \o bucket.bucketName.val}
        /\ \A r \in resources :
              r.kind = "secret" =>
                  \A p \in policies :
                      p.id = "StatefulSecretsPolicy" =>
                          \A s \in p.statements :
                              \E pattern \in s.resources :
                                  MatchesPattern(
                                      C12_SecretArn(environmentConfig, r.name.val),
                                      pattern)

\* Every statement of the policies attached so far.
Statements == UNION {p.statements : p \in policies}

\* The actions the code grants on '*'.
WildcardActions ==
    UNION {s.actions : s \in {x \in Statements : "*" \in x.resources}}

C14_Domains ==
    {"bootstrap", "cloudformation", "s3assets", "ssm", "ecr", "network", "rds",
     "appS3", "secrets"}

\* The permission domain each managed policy covers.
C14_DomainOf(id) ==
    CASE id = "CdkBootstrapPolicy" -> "bootstrap"
      [] id = "CloudFormationPolicy" -> "cloudformation"
      [] id = "S3AssetsPolicy" -> "s3assets"
      [] id = "SSMPolicy" -> "ssm"
      [] id = "ECRPolicy" -> "ecr"
      [] id = "EC2Policy" -> "network"
      [] id = "StatefulVPCPolicy" -> "network"
      [] id = "StatefulRDSPolicy" -> "rds"
      [] id = "StatefulS3Policy" -> "appS3"
      [] id = "StatefulSecretsPolicy" -> "secrets"

C14_Covering(d) == {p \in policies : C14_DomainOf(p.id) = d}

NotesVpcBuilt == network # NoNetwork /\ network.id = "Vpc"

IngressOf(group) ==
    {r \in network.rules : r.group = group /\ r.direction = "ingress"}

\* C15: the database security group built by NotesVpc has exactly one ingress
\* rule, from the application security group on TCP 5432.
C15_DatabaseIngressOnlyFromApplication ==
    NotesVpcBuilt =>
        IngressOf("DatabaseSecurityGroup") =
            {SecurityGroupRule("DatabaseSecurityGroup", "ingress",
                               "ApplicationSecurityGroup", 5432)}

C15_Witness ==
    /\ NotesVpcBuilt
    /\ \E r \in IngressOf("DatabaseSecurityGroup") : r.port = 5432

\* C16: the only ingress of the application security group is the load
\* balancer group on TCP 3000, and the ingress of the load balancer group is
\* exactly any IPv4 address on TCP 80 and on TCP 443.
C16_ApplicationAndLoadBalancerIngress ==
    NotesVpcBuilt =>
        /\ IngressOf("ApplicationSecurityGroup") =
              {SecurityGroupRule("ApplicationSecurityGroup", "ingress",
                                 "LoadBalancerSecurityGroup", 3000)}
        /\ IngressOf("LoadBalancerSecurityGroup") =
              {SecurityGroupRule("LoadBalancerSecurityGroup", "ingress", AnyIpv4, 80),
               SecurityGroupRule("LoadBalancerSecurityGroup", "ingress", AnyIpv4, 443)}

C16_Witness ==
    /\ NotesVpcBuilt
    /\ \E r \in IngressOf("ApplicationSecurityGroup") : r.port = 3000
    /\ IngressOf("LoadBalancerSecurityGroup") # {}

\* The edges peer -> group of the ingress rules.
C17_IngressEdges ==
    {<<r.peer, r.group>> : r \in {x \in network.rules : x.direction = "ingress"}}

\* C17: the ingress edges are exactly internet -> load balancer,
\* load balancer -> application and application -> database.
C17_IngressGraphIsAChain ==
    NotesVpcBuilt =>
        C17_IngressEdges =
            {<<AnyIpv4, "LoadBalancerSecurityGroup">>,
             <<"LoadBalancerSecurityGroup", "ApplicationSecurityGroup">>,
             <<"ApplicationSecurityGroup", "DatabaseSecurityGroup">>}

C17_Witness ==
    /\ NotesVpcBuilt
    /\ Cardinality(C17_IngressEdges) = 3

\* C18: the database is placed in isolated subnets, attached to the database
\* security group of the topology, and not publicly accessible.
C18_DatabaseIsIsolated ==
    database # NoDatabase =>
        /\ database.network.vpcSubnets = "PRIVATE_ISOLATED"
        /\ "DatabaseSecurityGroup" \in database.network.securityGroups
        /\ \/ database.network.publiclyAccessible = "false"
           \/ /\ database.network.publiclyAccessible = "default"
              /\ database.network.vpcSubnets # "PUBLIC"

\* C19 as stated: the network has 3 availability zones and 2 NAT gateways for
\* 'prod' and 2 and 1 for any other environment.
C19_AzAndNatPerEnvironment ==
    network # NoNetwork =>
        /\ network.maxAzs = IF environmentConfig.environment = "prod" THEN 3 ELSE 2
        /\ network.natGateways = IF environmentConfig.environment = "prod" THEN 2 ELSE 1

\* C19: the network built by NotesVpc has 3 availability zones and 2 NAT
\* gateways for 'prod' and 2 and 1 for any other environment; the minimal VPC
\* of the other NotesStateful has 2 availability zones and no NAT gateway in
\* every environment.
C19_AzAndNatPerSource ==
    network # NoNetwork =>
        IF network.id = "Vpc"
        THEN /\ network.maxAzs =
                    IF environmentConfig.environment = "prod" THEN 3 ELSE 2
             /\ network.natGateways =
                    IF environmentConfig.environment = "prod" THEN 2 ELSE 1
        ELSE /\ network.maxAzs = 2
             /\ network.natGateways = 0

C19_Witness ==
    /\ NotesVpcBuilt
    /\ environmentConfig.environment = "prod"
    /\ network.maxAzs = 3
    /\ network.natGateways = 2

C20_Protected(b) ==
    /\ b.blockPublicAccess = "BLOCK_ALL"
    /\ b.encryption \in {"S3_MANAGED", "KMS_MANAGED", "KMS"}
    /\ b.abortIncompleteMultipartUploadAfterDays = 1

\* C20: for every configuration and every source of NotesStateful, the images
\* bucket blocks all public access, is encrypted, and aborts incomplete
\* multipart uploads after exactly 1 day.
C20_BucketIsProtected ==
    /\ bucket # NoBucket => C20_Protected(bucket)
    /\ environments # NotLoaded =>
           \A k \in OwnKeys : C20_Protected(ImagesBucket(environments[k]))

C20_Witness ==
    /\ bucket # NoBucket
    /\ environmentConfig.environment = "prod"
    /\ bucket.abortIncompleteMultipartUploadAfterDays = 1


\* C21: the images bucket is versioned when the environment is 'prod' and
\* not versioned when it is 'preprod'.
C21_VersioningPerEnvironment ==
    bucket # NoBucket =>
        bucket.versioned = (environmentConfig.environment = "prod")

\* C22: the multiAz, allocatedStorage, deletionProtection and instance class
\* of the built database are those of the configuration, and its backup
\* retention is the same for every configuration, whatever the context, the
\* process environment and the source of the construct.
C22_DatabaseFollowsConfig ==
    database # NoDatabase =>
        /\ database.multiAz = environmentConfig.multiAz
        /\ database.allocatedStorage = environmentConfig.allocatedStorage
        /\ database.deletionProtection = environmentConfig.deletionProtection
        /\ database.instanceClass = environmentConfig.dbInstanceType
        /\ database.backupRetentionDays = 3

C22_Witness ==
    /\ database # NoDatabase
    /\ context["environmentConfig"] # Undefined
    /\ processEnv["PROD_AWS_ACCOUNT_ID"] # Undefined
    /\ database.allocatedStorage = environmentConfig.allocatedStorage

\* The entry point has run to its end or has thrown.
Ended == pc \in {"done", "error"}

StackIds == {s.id : s \in stacks}

C25_PromisedOutputs ==
    {"DatabaseEndpoint", "DatabasePort", "S3BucketName", "S3BucketArn", "VpcId",
     "ApplicationSubnets", "PublicSubnets", "DatabaseSubnets",
     "ApplicationSecurityGroupId", "LoadBalancerSecurityGroupId",
     "AttachedPoliciesCount", "AttachedPolicies"}

C25_DeclaredOutputs == {o \in outputs : o.stack = "NotesStatefulStack"}

\* C25: once the entry point has ended, NotesStatefulStack has declared every
\* promised output, and the export name of each exported one starts with the
\* environment name.
C25_PromisedOutputsDeclared ==
    (Ended /\ "NotesStatefulStack" \in StackIds) =>
        /\ C25_PromisedOutputs \subseteq {o.id : o \in C25_DeclaredOutputs}
        /\ \A o \in C25_DeclaredOutputs :
              o.exportName # Undefined =>
                  StartsWith(o.exportName.val, environmentConfig.environment \o "-")

\* C26: the stacks of a 'preprod' deployment and those of a 'prod' deployment
\* are disjoint: for every stack id, the (account, region, stack id) of the
\* stack differs between the two environments.
C26_EnvironmentsDeployDisjointStacks ==
    environments # NotLoaded =>
        \A id \in {"BaseCdkPermissionsStack", "NotesStatefulStack"} :
            StackOf(id, environments.preprod) # StackOf(id, environments.prod)

\* The policy of NotesStatefulStack that grants the service of a resource.
C27_GrantingPolicy(kind) ==
    CASE kind = "vpc" -> "StatefulVPCPolicy"
      [] kind = "securityGroup" -> "StatefulVPCPolicy"
      [] kind = "database" -> "StatefulRDSPolicy"
      [] kind = "secret" -> "StatefulSecretsPolicy"
      [] kind = "bucket" -> "StatefulS3Policy"

C28_NotesVpcConstructs ==
    NotesVpcBuilt =>
        /\ err = NoError
        /\ ReadSecurityGroup.ok

\* C29: with the NotesStateful of lib/constructs/NotesStateful.ts, whenever
\* NotesStatefulStack reads stateful.vpc the construct has set it; the
\* constructor never dereferences an undefined vpc.
C29_StatefulVpcIsDefined ==
    variant = "defaultVpc" =>
        /\ pc = "outputs" => HasVpcField(variant)
        /\ ~(err.kind = "TypeError" /\ err.at = "NotesStatefulStack.ts:72")

\* An IAM resource pattern matches an ARN when they agree character by
\* character, a '*' of the pattern standing for any run of characters: the
\* ARN starts with the text before the first '*', and some rest of it matches
\* the pattern after that '*'.
RECURSIVE GlobMatch(_, _)
GlobMatch(pattern, s) ==
    LET stars == {i \in 1..Len(pattern) : SubSeq(pattern, i, i) = "*"}
    IN  IF stars = {}
        THEN pattern = s
        ELSE LET k == CHOOSE i \in stars : \A j \in stars : i <= j
                 prefix == SubSeq(pattern, 1, k - 1)
                 rest == SubSeq(pattern, k + 1, Len(pattern))
             IN  /\ StartsWith(s, prefix)
                 /\ \E n \in Len(prefix)..Len(s) :
                        GlobMatch(rest, SubSeq(s, n + 1, Len(s)))

\* The ARN of a deployed stack: its name is its id, followed by the id
\* CloudFormation generates.
C30_StackArn(stack) ==
    "arn:aws:cloudformation:" \o stack.region \o ":" \o stack.account
        \o ":stack/" \o stack.id \o "/0a1b2c3d"

\* C30: for each stack created in cdk.ts, some resource pattern of the
\* CloudFormationAccess statement matches the stack's ARN.
C30_CloudFormationCoversStacks ==
    \A p \in policies :
        p.id = "CloudFormationPolicy" =>
            \A stack \in stacks :
                \E st \in p.statements :
                    \E pattern \in st.resources :
                        GlobMatch(pattern, C30_StackArn(stack))

====
